---- MODULE Spec2Model ----
(***************************************************************************)
(* A model of the download/track/schedule workflow (download_yt_v.py,      *)
(* get_yt) and of the publisher (yt_uploader.py).                          *)
(*                                                                         *)
(* Conventions.                                                            *)
(*  - A date text "DD-MM-YYYY" is the triple <<DD, MM, YYYY>> of its three *)
(*    numeric fields; NoDate stands for any text strptime rejects by its   *)
(*    shape ('' included).  A datetime's date is its proleptic Gregorian   *)
(*    ordinal, as in Python's datetime (date.toordinal()).                 *)
(*  - A time of day is minutes since midnight.                             *)
(*  - A filesystem operation can fail exactly where the code wraps that    *)
(*    operation in a try/except of its own.                                *)
(*  - A tracking record is its url and its schedule_date, the two fields   *)
(*    get_yt reads back.  title, description, tags and has_transcript      *)
(*    describe the video at url, schedule_time repeats schedule_date and   *)
(*    processed_at the clock; get_yt writes them and never reads them.     *)
(***************************************************************************)
EXTENDS Integers, Sequences, FiniteSets, TLC

(* ------------------------------ bounds --------------------------------- *)
NumUrls == 2
MaxCalls == 2
MaxDayOffset == 1
MaxInitLen == 2
MaxUploads == 2
MaxTitleSlack == 1
MaxTags == 2
MaxApplied == 2

(* --------------------------- program constants ------------------------- *)
SCHED_HOUR == 6
SCHED_MINUTE == 30
UPLOAD_HOUR == 7
UPLOAD_MINUTE == 35
MAX_TITLE == 90

Urls == 1..NumUrls
Procs == {1, 2}

(* ------------------- datetime: the calendar arithmetic ----------------- *)
is_leap(y) == y % 4 = 0 /\ (y % 100 # 0 \/ y % 400 = 0)

DAYS_IN_MONTH == <<31, 28, 31, 30, 31, 30, 31, 31, 30, 31, 30, 31>>

DAYS_BEFORE_MONTH == <<0, 31, 59, 90, 120, 151, 181, 212, 243, 273, 304, 334>>

days_in_month(y, m) == IF m = 2 /\ is_leap(y) THEN 29 ELSE DAYS_IN_MONTH[m]

days_before_year(year) ==
    LET y == year - 1
    IN  y * 365 + (y \div 4) - (y \div 100) + (y \div 400)

days_before_month(y, m) ==
    DAYS_BEFORE_MONTH[m] + (IF m > 2 /\ is_leap(y) THEN 1 ELSE 0)

ymd2ord(y, m, d) == days_before_year(y) + days_before_month(y, m) + d

ord2ymd(ordinal) ==
    LET n0   == ordinal - 1
        n400 == n0 \div 146097
        r400 == n0 % 146097
        n100 == r400 \div 36524
        r100 == r400 % 36524
        n4   == r100 \div 1461
        r4   == r100 % 1461
        n1   == r4 \div 365
        n    == r4 % 365
        year == n400 * 400 + 1 + n100 * 100 + n4 * 4 + n1
        leapyear == n1 = 3 /\ (n4 # 24 \/ n100 = 3)
        month0 == (n + 50) \div 32
        prec0  == DAYS_BEFORE_MONTH[month0]
                    + (IF month0 > 2 /\ leapyear THEN 1 ELSE 0)
        month  == IF prec0 > n THEN month0 - 1 ELSE month0
        prec   == IF prec0 > n
                  THEN prec0 - (DAYS_IN_MONTH[month]
                                  + (IF month = 2 /\ leapyear THEN 1 ELSE 0))
                  ELSE prec0
    IN  IF n1 = 4 \/ n100 = 4
        THEN <<year - 1, 12, 31>>
        ELSE <<year, month, n - prec + 1>>

MAXORDINAL == ymd2ord(9999, 12, 31)

NoDate == <<0, 0, 0>>

\* datetime.strptime(s, "%d-%m-%Y") succeeds
strptime_ok(s) ==
    /\ s[3] \in 1..9999
    /\ s[2] \in 1..12
    /\ s[1] \in 1..days_in_month(s[3], s[2])

\* the date datetime.strptime(s, "%d-%m-%Y") returns, as an ordinal
strptime(s) == ymd2ord(s[3], s[2], s[1])

\* dt.strftime("%d-%m-%Y")
strftime(ordinal) ==
    LET ymd == ord2ymd(ordinal) IN <<ymd[3], ymd[2], ymd[1]>>

\* dt + timedelta(days=1) raises OverflowError
add_day_overflows(ordinal) == ordinal + 1 > MAXORDINAL

add_day(ordinal) == ordinal + 1

(* ------------------------------- state --------------------------------- *)
VARIABLES
    dirExists,  \* the target directory exists
    track,      \* process_track.json: [kind, recs]
    art,        \* yt_video.mp4, yt_metadata.json, yt_transcript.txt
    clock,      \* the wall clock in Asia/Kolkata: [day, tod]
    calls,      \* get_yt invocations started so far
    pc,         \* per invocation: the statement get_yt is at
    loc,        \* per invocation: get_yt's local variables
    mediaFiles, \* the media paths that exist
    tokenFile,  \* token.pickle: [present, creds]
    uploads,    \* upload_video calls made so far
    pub,        \* the last upload_video call: its arguments and what it did
    metadata,   \* the argument of prepare_video_details
    details,    \* what prepare_video_details returned for it
    applied     \* how often prepare_video_details was applied in a row

fetchVars == <<dirExists, track, art, clock, calls, pc, loc>>

pubVars == <<mediaFiles, tokenFile, uploads, pub>>

detailVars == <<metadata, details, applied>>

vars == <<fetchVars, pubVars, detailVars>>

\* What process_track.json can hold.  kind:
\*   "missing"     no such file
\*   "list"        a JSON list; recs are its elements (records or not)
\*   "unparseable" text json.load rejects
\*   "truthy"      a JSON value that is no list and is truthy in Python
\*                 (a non-empty object or string, a non-zero number, true)
\*   "falsy"       null, 0 or false
\*   "emptyobj"    {} or ""
File(kind, recs) == [kind |-> kind, recs |-> recs]

Record(url, schedule_date) ==
    [isrec |-> TRUE, url |-> url, schedule_date |-> schedule_date]

\* a list element that is no JSON object (a number, a string, null, ...)
Junk == [isrec |-> FALSE, url |-> 0, schedule_date |-> NoDate]

NoArtifacts == [video |-> 0, json |-> <<>>, transcript |-> 0]

SchedMinuteOfDay == SCHED_HOUR * 60 + SCHED_MINUTE

Day0 == ymd2ord(2024, 2, 28)

ClockDays == Day0..(Day0 + MaxDayOffset)

TimesOfDay == {SchedMinuteOfDay - 1, SchedMinuteOfDay, SchedMinuteOfDay + 1}

Clocks == [day : ClockDays, tod : TimesOfDay]

FirstClock == [day |-> Day0, tod |-> SchedMinuteOfDay - 1]

NotBefore(t, c) == t.day > c.day \/ (t.day = c.day /\ t.tod >= c.tod)

\* lines 13-20: result, and the locals before any of them is assigned
Locals(url, now, trackAtStart, artAtStart) ==
    [url |-> url, now |-> now,
     processed |-> File("list", <<>>),
     schedule_date |-> NoDate,
     transcript_text |-> FALSE,
     video_file |-> FALSE,        \* result['video_file'] is not None
     transcript_file |-> FALSE,   \* result['transcript_file'] is not None
     extracted |-> FALSE,         \* ydl.extract_info was called
     ci |-> 1,                    \* index into the clean-up loop of line 81
     tracked |-> FALSE,           \* line 171 was reached
     readFailed |-> FALSE,        \* line 47 was reached
     trackAtStart |-> trackAtStart,
     artAtStart |-> artAtStart]

Idle == Locals(0, FirstClock, File("missing", <<>>), NoArtifacts)

Returned(p) == pc[p] = "done"

Raised(p) == pc[p] = "raised"

Finished(p) == pc[p] \in {"idle", "done", "raised"}

Goto(p, label) == pc' = [pc EXCEPT ![p] = label]

(* ------------------------------- get_yt -------------------------------- *)
\* lines 7-36: entry, result, os.makedirs, the paths, now_ist
Enter(p, url, now) ==
    /\ Finished(p)
    /\ calls < MaxCalls
    /\ NotBefore(now, clock)
    /\ clock' = now
    /\ calls' = calls + 1
    /\ loc' = [loc EXCEPT ![p] = Locals(url, now, track, art)]
    /\ \E mkdirOk \in BOOLEAN :
          IF dirExists \/ mkdirOk
          THEN dirExists' = TRUE /\ Goto(p, "load")
          ELSE dirExists' = FALSE /\ Goto(p, "done")
    /\ UNCHANGED <<track, art>>
    /\ UNCHANGED <<pubVars, detailVars>>

\* lines 38-50: what `processed` is bound to
LoadValue(file, readOk) ==
    IF file.kind = "missing" THEN File("list", <<>>)
    ELSE IF ~readOk THEN File("list", <<>>)
    ELSE IF file.kind = "unparseable" THEN File("list", <<>>)
    ELSE file

LoadTracking(p) ==
    /\ pc[p] = "load"
    /\ \E readOk \in BOOLEAN :
          loc' = [loc EXCEPT ![p].processed = LoadValue(track, readOk),
                             ![p].readFailed =
                                 track.kind # "missing" /\ ~readOk]
    /\ Goto(p, "schedule")
    /\ UNCHANGED <<dirExists, track, art, clock, calls>>
    /\ UNCHANGED <<pubVars, detailVars>>

\* `if processed:`
Truthy(processed) ==
    \/ processed.kind = "truthy"
    \/ processed.kind = "list" /\ Len(processed.recs) > 0

\* lines 54-55 raise: processed[-1] on a non-list, or .get on a non-object
LastItemRaises(processed) ==
    /\ Truthy(processed)
    /\ \/ processed.kind # "list"
       \/ ~processed.recs[Len(processed.recs)].isrec

\* NextSlotFromNow without the roll to tomorrow of lines 61-62 and 65-66
NextSlotFromNow_NoRoll(now) == now.day

\* lines 60-62 and 64-66: the next 06:30 from now
NextSlotFromNow(now) ==
    IF now.tod >= SchedMinuteOfDay THEN add_day(now.day) ELSE now.day

\* NextDate with line 58 taking the last date itself, not the day after it
NextDate_SameDay(processed, now) ==
    IF Truthy(processed)
    THEN LET last_schedule_str ==
                 processed.recs[Len(processed.recs)].schedule_date
         IN  IF strptime_ok(last_schedule_str)
             THEN strptime(last_schedule_str)
             ELSE NextSlotFromNow(now)
    ELSE NextSlotFromNow(now)

\* lines 53-66: next_date, as an ordinal
NextDate(processed, now) ==
    IF Truthy(processed)
    THEN LET last_schedule_str ==
                 processed.recs[Len(processed.recs)].schedule_date
         IN  IF strptime_ok(last_schedule_str)
                /\ ~add_day_overflows(strptime(last_schedule_str))
             THEN add_day(strptime(last_schedule_str))
             ELSE NextSlotFromNow(now)
    ELSE NextSlotFromNow(now)

\* lines 52-72
NextScheduleDate(p) ==
    /\ pc[p] = "schedule"
    /\ IF LastItemRaises(loc[p].processed)
       THEN Goto(p, "raised") /\ UNCHANGED loc
       ELSE /\ loc' = [loc EXCEPT ![p].schedule_date =
                          strftime(NextDate(loc[p].processed, loc[p].now))]
            /\ Goto(p, "dedup")
    /\ UNCHANGED <<dirExists, track, art, clock, calls>>
    /\ UNCHANGED <<pubVars, detailVars>>

\* lines 75-78, the loop over `processed` from element i on
RECURSIVE ScanFrom(_, _, _)
ScanFrom(recs, url, i) ==
    IF i > Len(recs) THEN "go"
    ELSE IF ~recs[i].isrec THEN "raise"
    ELSE IF recs[i].url = url THEN "skip"
    ELSE ScanFrom(recs, url, i + 1)

\* AlreadyProcessed with the comparison of line 76 never true
AlreadyProcessed_NoSkip(processed, url) ==
    IF processed.kind \in {"list", "emptyobj"} THEN "go" ELSE "raise"

\* AlreadyProcessed comparing the last record only
AlreadyProcessed_LastOnly(processed, url) ==
    IF processed.kind = "list"
    THEN IF Len(processed.recs) = 0 THEN "go"
         ELSE ScanFrom(processed.recs, url, Len(processed.recs))
    ELSE IF processed.kind = "emptyobj" THEN "go"
    ELSE "raise"

AlreadyProcessed(processed, url) ==
    IF processed.kind = "list" THEN ScanFrom(processed.recs, url, 1)
    ELSE IF processed.kind = "emptyobj" THEN "go"
    ELSE "raise"

\* lines 74-78
SkipIfProcessed(p) ==
    /\ pc[p] = "dedup"
    /\ LET r == AlreadyProcessed(loc[p].processed, loc[p].url)
       IN  Goto(p, IF r = "raise" THEN "raised"
                   ELSE IF r = "skip" THEN "done" ELSE "clean")
    /\ UNCHANGED <<dirExists, track, art, clock, calls, loc>>
    /\ UNCHANGED <<pubVars, detailVars>>

\* lines 80-87: one turn of the loop over [video_file, json_file,
\* transcript_file]
Removed(a, i) ==
    IF i = 1 THEN [a EXCEPT !.video = 0]
    ELSE IF i = 2 THEN [a EXCEPT !.json = <<>>]
    ELSE [a EXCEPT !.transcript = 0]

CleanOldFile(p) ==
    /\ pc[p] = "clean"
    /\ \E removeOk \in BOOLEAN :
          art' = IF removeOk THEN Removed(art, loc[p].ci) ELSE art
    /\ IF loc[p].ci < 3
       THEN loc' = [loc EXCEPT ![p].ci = @ + 1] /\ UNCHANGED pc
       ELSE UNCHANGED loc /\ Goto(p, "download")
    /\ UNCHANGED <<dirExists, track, clock, calls>>
    /\ UNCHANGED <<pubVars, detailVars>>

\* lines 89-108 and 180-181: ydl.extract_info(url, download=True)
Download(p) ==
    /\ pc[p] = "download"
    /\ \E ok \in BOOLEAN :
          IF ok
          THEN /\ art' = [art EXCEPT !.video = loc[p].url]
               /\ loc' = [loc EXCEPT ![p].extracted = TRUE,
                                     ![p].video_file = TRUE]
               /\ Goto(p, "transcript")
          ELSE /\ loc' = [loc EXCEPT ![p].extracted = TRUE]
               /\ Goto(p, "done")
               /\ UNCHANGED art
    /\ UNCHANGED <<dirExists, track, clock, calls>>
    /\ UNCHANGED <<pubVars, detailVars>>

\* lines 110-146: the captions, and yt_transcript.txt
SaveTranscript(p) ==
    /\ pc[p] = "transcript"
    /\ \E text \in BOOLEAN, writeOk \in BOOLEAN :
          /\ loc' = [loc EXCEPT ![p].transcript_text = text,
                                ![p].transcript_file = text /\ writeOk]
          /\ art' = IF text /\ writeOk
                    THEN [art EXCEPT !.transcript = loc[p].url]
                    ELSE art
    /\ Goto(p, "metadata")
    /\ UNCHANGED <<dirExists, track, clock, calls>>
    /\ UNCHANGED <<pubVars, detailVars>>

\* lines 149-158
Metadata(p) ==
    Record(loc[p].url, loc[p].schedule_date)

\* lines 160-164
SaveMetadata(p) ==
    /\ pc[p] = "metadata"
    /\ \E writeOk \in BOOLEAN :
          art' = IF writeOk THEN [art EXCEPT !.json = <<Metadata(p)>>]
                 ELSE art
    /\ Goto(p, "track")
    /\ UNCHANGED <<dirExists, track, clock, calls, loc>>
    /\ UNCHANGED <<pubVars, detailVars>>

\* WrittenTrack appending to what the file holds now, not to `processed`
WrittenTrack_Merge(file, processed, record, outcome) ==
    IF processed.kind # "list" THEN file
    ELSE IF outcome = "ok"
         THEN File("list", Append(IF file.kind = "list" THEN file.recs
                                  ELSE <<>>, record))
    ELSE IF outcome = "truncated" THEN File("unparseable", <<>>)
    ELSE file

\* lines 168-170: what process_track.json holds afterwards.  outcome:
\* "ok", "open_failed" (open raised: the file is as it was) or "truncated"
\* (open truncated the file and json.dump or the close raised)
WrittenTrack(file, processed, record, outcome) ==
    IF processed.kind # "list" THEN file      \* processed.append raises
    ELSE IF outcome = "ok"
         THEN File("list", Append(processed.recs, record))
    ELSE IF outcome = "truncated" THEN File("unparseable", <<>>)
    ELSE file

\* lines 166-183
SaveTracking(p) ==
    /\ pc[p] = "track"
    /\ \E outcome \in {"ok", "open_failed", "truncated"} :
          /\ track' = WrittenTrack(track, loc[p].processed, Metadata(p),
                                   outcome)
          /\ loc' = [loc EXCEPT ![p].tracked =
                         loc[p].processed.kind = "list" /\ outcome = "ok"]
    /\ Goto(p, "done")
    /\ UNCHANGED <<dirExists, art, clock, calls>>
    /\ UNCHANGED <<pubVars, detailVars>>

\* one statement of invocation p
Step(p) ==
    \/ LoadTracking(p)
    \/ NextScheduleDate(p)
    \/ SkipIfProcessed(p)
    \/ CleanOldFile(p)
    \/ Download(p)
    \/ SaveTranscript(p)
    \/ SaveMetadata(p)
    \/ SaveTracking(p)

(* ------------------------- prepare_video_details ----------------------- *)
\* A text is a sequence: a title of characters (numbers), a description of
\* words (strings), the blank line between two paragraphs being a word.
Chars(from, n) == [i \in 1..n |-> from + i]

DEFAULT_TITLE == Chars(1000, 19)       \* 'Amazing Short Video'

UNTITLED == Chars(2000, 14)            \* 'Untitled Video'

default_hashtags ==
    <<"#sciencefacts", "#amazingfacts", "#subscribe", "#shorts">>

default_tags == <<"shorts", "sciencefacts", "amazingfacts", "subscribe">>

DEFAULT_DESCRIPTION == <<"Check out this awesome short video!", "\n\n">>
                          \o default_hashtags

DEFAULT_ALL_TAGS == <<"shorts", "sciencefacts", "amazingfacts", "subscribe",
                      "viral", "trending">>

\* a metadata argument: none is None or {}; hasTitle is 'title' in metadata;
\* a missing description is '' and missing tags are []
Meta(none, hasTitle, title, description, tags) ==
    [none |-> none, hasTitle |-> hasTitle, title |-> title,
     description |-> description, tags |-> tags]

NoMeta == Meta(TRUE, FALSE, <<>>, <<>>, <<>>)

Details(title, description, tags) ==
    [title |-> title, description |-> description, tags |-> tags]

Contains(seq, x) == \E i \in 1..Len(seq) : seq[i] = x

\* prepare_video_details keeping the whole title (lines 74-75 left out)
Truncated_Never(title) == title

\* lines 74-75
Truncated(title) ==
    IF Len(title) > MAX_TITLE THEN SubSeq(title, 1, MAX_TITLE) ELSE title

\* lines 79-82
WithHashtags(description) ==
    IF description # <<>>
    THEN description \o <<"\n\n">> \o default_hashtags
    ELSE default_hashtags

\* lines 88-90, the loop over default_tags from its element i on
RECURSIVE WithDefaultTags(_, _)
WithDefaultTags(tags, i) ==
    IF i > Len(default_tags) THEN tags
    ELSE WithDefaultTags(IF Contains(tags, default_tags[i]) THEN tags
                         ELSE Append(tags, default_tags[i]), i + 1)

\* lines 59-96
prepare_video_details(m) ==
    IF m.none
    THEN Details(DEFAULT_TITLE, DEFAULT_DESCRIPTION, DEFAULT_ALL_TAGS)
    ELSE Details(Truncated(IF m.hasTitle THEN m.title ELSE UNTITLED),
                 WithHashtags(m.description),
                 WithDefaultTags(m.tags, 1))

(* -------------------------- authenticate_youtube ----------------------- *)
\* credentials: token is `token is not None`, refresh_token is
\* `refresh_token is not None`
Creds(token, expired, refresh_token) ==
    [token |-> token, expired |-> expired, refresh_token |-> refresh_token]

NoCreds == Creds(FALSE, FALSE, FALSE)

Token(present, creds) == [present |-> present, creds |-> creds]

\* creds.valid
Valid(creds) == creds.token /\ ~creds.expired

Auth(called, read, refreshed, interactive, written, raised, token) ==
    [called |-> called, read |-> read, refreshed |-> refreshed,
     interactive |-> interactive, written |-> written, raised |-> raised,
     token |-> token]

NoAuth(tf) == Auth(FALSE, FALSE, FALSE, FALSE, FALSE, FALSE, tf)

\* authenticate_youtube with lines 35-36 inside the else branch: a
\* refreshed token is not saved
authenticate_youtube_RefreshNotSaved(tf, refreshOk, flowOk, flowRefresh) ==
    IF tf.present /\ Valid(tf.creds)
    THEN Auth(TRUE, TRUE, FALSE, FALSE, FALSE, FALSE, tf)
    ELSE IF tf.present /\ tf.creds.expired /\ tf.creds.refresh_token
    THEN Auth(TRUE, TRUE, TRUE, FALSE, FALSE, ~refreshOk, tf)
    ELSE IF flowOk
         THEN Auth(TRUE, tf.present, FALSE, TRUE, TRUE, FALSE,
                   Token(TRUE, Creds(TRUE, FALSE, flowRefresh)))
         ELSE Auth(TRUE, tf.present, FALSE, TRUE, FALSE, TRUE, tf)

\* lines 15-38: what the call did, and token.pickle afterwards.  refreshOk:
\* creds.refresh returns; flowOk: the interactive authorization returns,
\* with a refresh token when flowRefresh
authenticate_youtube(tf, refreshOk, flowOk, flowRefresh) ==
    IF tf.present /\ Valid(tf.creds)
    THEN Auth(TRUE, TRUE, FALSE, FALSE, FALSE, FALSE, tf)
    ELSE IF tf.present /\ tf.creds.expired /\ tf.creds.refresh_token
    THEN IF refreshOk
         THEN Auth(TRUE, TRUE, TRUE, FALSE, TRUE, FALSE,
                   Token(TRUE, Creds(TRUE, FALSE, TRUE)))
         ELSE Auth(TRUE, TRUE, TRUE, FALSE, FALSE, TRUE, tf)
    ELSE IF flowOk
         THEN Auth(TRUE, tf.present, FALSE, TRUE, TRUE, FALSE,
                   Token(TRUE, Creds(TRUE, FALSE, flowRefresh)))
         ELSE Auth(TRUE, tf.present, FALSE, TRUE, FALSE, TRUE, tf)

(* ----------------------------- upload_video ---------------------------- *)
UploadMinuteOfDay == UPLOAD_HOUR * 60 + UPLOAD_MINUTE

UploadTimesOfDay ==
    {UploadMinuteOfDay - 1, UploadMinuteOfDay, UploadMinuteOfDay + 1}

\* lines 41-48
get_next_upload_time(now) ==
    [day |-> IF now.tod >= UploadMinuteOfDay THEN add_day(now.day)
             ELSE now.day,
     tod |-> UploadMinuteOfDay]

MediaPaths == {"output_video.mp4", "other.mp4"}

Call(video_file, result, auth, before, requested, dets, publishAt) ==
    [video_file |-> video_file, result |-> result, auth |-> auth,
     tokenBefore |-> before, requested |-> requested, details |-> dets,
     publishAt |-> publishAt]

NoCall ==
    Call("", "none", NoAuth(Token(FALSE, NoCreds)), Token(FALSE, NoCreds),
         FALSE, Details(<<>>, <<>>, <<>>), [day |-> 0, tod |-> 0])

\* what the collaborators do during one call: creds.refresh returns
\* (refreshOk), the interactive authorization returns (flowOk), with a
\* refresh token (flowRefresh), the upload request succeeds (uploadOk)
Outcomes ==
    [refreshOk : BOOLEAN, flowOk : BOOLEAN, flowRefresh : BOOLEAN,
     uploadOk : BOOLEAN]

\* lines 105-156: the media file exists
Attempt(video_file, m, now, tf, o) ==
    LET auth == authenticate_youtube(tf, o.refreshOk, o.flowOk, o.flowRefresh)
    IN  Call(video_file,
             IF ~auth.raised /\ o.uploadOk THEN "success" ELSE "error",
             auth, tf, ~auth.raised,
             prepare_video_details(m), get_next_upload_time(now))

\* upload_video authenticating before it looks for the media file
UploadOutcome_AuthFirst(video_file, exists, m, now, tf, o) ==
    LET a == Attempt(video_file, m, now, tf, o)
    IN  IF exists THEN a
        ELSE [a EXCEPT !.result = "error", !.requested = FALSE]

\* lines 99-156: what the call did and returned
UploadOutcome(video_file, exists, m, now, tf, o) ==
    IF ~exists
    THEN Call(video_file, "error", NoAuth(tf), tf, FALSE,
              Details(<<>>, <<>>, <<>>), [day |-> 0, tod |-> 0])
    ELSE Attempt(video_file, m, now, tf, o)

\* the metadata files upload_video is given: none, or one with a long title
UploadMetas ==
    {NoMeta,
     Meta(FALSE, TRUE, Chars(0, MAX_TITLE + 1), <<"text">>, <<"viral">>)}

upload_video(video_file, m, now, o) ==
    /\ uploads < MaxUploads
    /\ uploads' = uploads + 1
    /\ pub' = UploadOutcome(video_file, video_file \in mediaFiles, m, now,
                            tokenFile, o)
    /\ tokenFile' = pub'.auth.token
    /\ UNCHANGED <<mediaFiles, fetchVars, detailVars>>

\* time passes: the persisted access token expires
TokenExpires ==
    /\ tokenFile.present
    /\ ~tokenFile.creds.expired
    /\ tokenFile' = [tokenFile EXCEPT !.creds.expired = TRUE]
    /\ UNCHANGED <<mediaFiles, uploads, pub, fetchVars, detailVars>>

(* ---------------- prepare_video_details applied to inputs -------------- *)
Titles ==
    {Chars(0, n) :
        n \in {0, 1} \cup ((MAX_TITLE - MaxTitleSlack)..
                            (MAX_TITLE + MaxTitleSlack))}

Descriptions ==
    {<<>>, <<"text">>, <<"text", "#shorts">>, default_hashtags,
     <<"text", "\n\n">> \o default_hashtags}

TagWords == {"shorts", "subscribe", "viral"}

\* tag lists naming no tag twice
TagLists ==
    UNION {{g \in [1..n -> TagWords] :
              \A i, j \in 1..n : i # j => g[i] # g[j]} : n \in 0..MaxTags}

Metas ==
    {NoMeta} \cup
    {Meta(FALSE, TRUE, t, d, g) : t \in Titles, d \in Descriptions,
                                  g \in TagLists} \cup
    {Meta(FALSE, FALSE, <<>>, d, g) : d \in Descriptions, g \in TagLists}

AsMeta(d) == Meta(FALSE, TRUE, d.title, d.description, d.tags)

\* details = prepare_video_details(metadata)
Prepare ==
    /\ applied = 0
    /\ details' = prepare_video_details(metadata)
    /\ applied' = 1
    /\ UNCHANGED <<metadata, fetchVars, pubVars>>

\* details = prepare_video_details(details)
PrepareAgain ==
    /\ applied \in 1..(MaxApplied - 1)
    /\ metadata' = AsMeta(details)
    /\ details' = prepare_video_details(AsMeta(details))
    /\ applied' = applied + 1
    /\ UNCHANGED <<fetchVars, pubVars>>

(* -------------------- sequential use, from a clean start --------------- *)
\* the component a specification is not about is at rest
FetcherAtRest ==
    /\ dirExists = FALSE
    /\ track = File("missing", <<>>)
    /\ art = NoArtifacts
    /\ clock = FirstClock
    /\ calls = 0
    /\ pc = [p \in Procs |-> "idle"]
    /\ loc = [p \in Procs |-> Idle]

PublisherAtRest ==
    /\ mediaFiles = {}
    /\ tokenFile = Token(FALSE, NoCreds)
    /\ uploads = 0
    /\ pub = NoCall

DetailsAtRest ==
    /\ metadata = NoMeta
    /\ details = Details(<<>>, <<>>, <<>>)
    /\ applied = 0

InitFetch ==
    /\ PublisherAtRest
    /\ DetailsAtRest
    /\ dirExists \in BOOLEAN
    /\ track \in (IF dirExists
                  THEN {File("missing", <<>>), File("list", <<>>)}
                  ELSE {File("missing", <<>>)})
    /\ art = NoArtifacts
    /\ clock = FirstClock
    /\ calls = 0
    /\ pc = [p \in Procs |-> "idle"]
    /\ loc = [p \in Procs |-> Idle]

NextFetch ==
    \/ \E url \in Urls, now \in Clocks : Enter(1, url, now)
    \/ Step(1)

Spec == InitFetch /\ [][NextFetch]_vars

(* ------------- two invocations at once, from a clean start ------------- *)
\* both invocations start within the same minute
NextConcurrent ==
    \E p \in Procs :
        \/ \E url \in Urls : pc[p] = "idle" /\ Enter(p, url, clock)
        \/ Step(p)

SpecConcurrent == InitFetch /\ [][NextConcurrent]_vars

(* ------------- one call, whatever the directory holds ------------------ *)
\* schedule_date texts a tracking file may hold: a leap day, the ends of a
\* month and of a year, the last two dates datetime can hold, a day its
\* month does not have, and a text of another shape
InitDates ==
    {<<29, 2, 2024>>, <<31, 12, 2024>>, <<30, 12, 9999>>, <<31, 12, 9999>>,
     <<31, 2, 2024>>, NoDate}

\* get_yt reads the schedule_date of the last element only (line 54)
InitLast == {Record(u, d) : u \in Urls, d \in InitDates} \cup {Junk}

InitEarlier == {Record(u, NoDate) : u \in Urls} \cup {Junk}

InitLists ==
    {<<>>} \cup
    UNION {{Append(pre, l) : pre \in [1..(n - 1) -> InitEarlier],
                             l \in InitLast} : n \in 1..MaxInitLen}

InitFiles ==
    {File("list", l) : l \in InitLists} \cup
    {File(k, <<>>) : k \in {"missing", "unparseable", "truthy", "falsy",
                            "emptyobj"}}

OldArtifacts ==
    [video |-> 1, json |-> <<Record(1, <<29, 2, 2024>>)>>, transcript |-> 1]

InitAny ==
    /\ PublisherAtRest
    /\ DetailsAtRest
    /\ track \in InitFiles
    /\ art \in {NoArtifacts, OldArtifacts}
    /\ dirExists \in (IF track.kind = "missing" /\ art = NoArtifacts
                      THEN BOOLEAN ELSE {TRUE})
    /\ clock = FirstClock
    /\ calls = 0
    /\ pc = [p \in Procs |-> "idle"]
    /\ loc = [p \in Procs |-> Idle]

NextOneCall ==
    \/ \E url \in Urls, now \in Clocks : calls = 0 /\ Enter(1, url, now)
    \/ Step(1)

SpecOneCall == InitAny /\ [][NextOneCall]_vars

(* ------------------------------ publisher ------------------------------ *)
InitPublish ==
    /\ FetcherAtRest
    /\ DetailsAtRest
    /\ mediaFiles \in SUBSET MediaPaths
    /\ tokenFile = Token(FALSE, NoCreds)
    /\ uploads = 0
    /\ pub = NoCall

NextPublish ==
    \/ \E video_file \in MediaPaths, m \in UploadMetas,
          now \in [day : {Day0}, tod : UploadTimesOfDay], o \in Outcomes :
          upload_video(video_file, m, now, o)
    \/ TokenExpires

SpecPublish == InitPublish /\ [][NextPublish]_vars

(* ------------------------ prepare_video_details ------------------------ *)
InitDetails ==
    /\ FetcherAtRest
    /\ PublisherAtRest
    /\ metadata \in Metas
    /\ details = Details(<<>>, <<>>, <<>>)
    /\ applied = 0

NextDetails == Prepare \/ PrepareAgain

SpecDetails == InitDetails /\ [][NextDetails]_vars

(* ============================== claims ================================= *)
IsPrefix(s, t) ==
    Len(s) <= Len(t) /\ \A i \in 1..Len(s) : s[i] = t[i]

\* the records a tracking file holds
RecordsOf(file) == IF file.kind = "list" THEN file.recs ELSE <<>>

\* a list of record objects, the data model's tracking sequence
IsTrackingSequence(processed) ==
    processed.kind = "list"
    /\ \A i \in 1..Len(processed.recs) : processed.recs[i].isrec

UrlIn(recs, url) == \E i \in 1..Len(recs) : recs[i].url = url

\* line 69 has been executed
Scheduled(p) == loc[p].schedule_date # NoDate

LastRecord(p) == loc[p].processed.recs[Len(loc[p].processed.recs)]

\* the loaded sequence is non-empty and its last record's date parses
LastParses(p) ==
    /\ loc[p].processed.kind = "list"
    /\ Len(loc[p].processed.recs) > 0
    /\ LastRecord(p).isrec
    /\ strptime_ok(LastRecord(p).schedule_date)

\* the day after a calendar date, by the calendar's rules
NextCalendarDay(s) ==
    IF s[1] < days_in_month(s[3], s[2]) THEN <<s[1] + 1, s[2], s[3]>>
    ELSE IF s[2] < 12 THEN <<1, s[2] + 1, s[3]>>
    ELSE <<1, 1, s[3] + 1>>

\* invocation p has rewritten process_track.json with one more record
Appended(p) ==
    /\ Returned(p)
    /\ track.kind = "list"
    /\ track # loc[p].trackAtStart
    /\ Len(track.recs) = Len(loc[p].processed.recs) + 1

\* C1: after any sequence of sequential get_yt calls against a directory
\* whose tracking file was missing or empty, no two records of
\* process_track.json have the same url.
C1_UrlsUnique ==
    \A i, j \in 1..Len(RecordsOf(track)) :
        i # j => track.recs[i].url # track.recs[j].url

\* two fetches have been recorded
C1_Witness == Len(RecordsOf(track)) >= 2 /\ Returned(1)

\* C2: when the url is in some record of the tracking sequence get_yt
\* loaded, get_yt gets no further than the check of lines 75-78: it never
\* calls the extraction collaborator, its result's video_file and
\* transcript_file stay null, and the tracking file and the artifact files
\* are as they were when it was called.
C2_SkipHasNoEffect ==
    \A p \in Procs :
        (/\ pc[p] \notin {"idle", "load"}
         /\ IsTrackingSequence(loc[p].processed)
         /\ UrlIn(loc[p].processed.recs, loc[p].url))
        => /\ pc[p] \in {"schedule", "dedup", "done"}
           /\ ~loc[p].extracted
           /\ ~loc[p].video_file
           /\ ~loc[p].transcript_file
           /\ track = loc[p].trackAtStart
           /\ art = loc[p].artAtStart

\* get_yt has returned for a url recorded earlier in a sequence of two
\* records, with old artifacts on disk
C2_Witness ==
    /\ Returned(1)
    /\ IsTrackingSequence(loc[1].processed)
    /\ Len(loc[1].processed.recs) = 2
    /\ loc[1].processed.recs[1].url = loc[1].url
    /\ loc[1].processed.recs[2].url # loc[1].url
    /\ art = OldArtifacts

\* C3, as claimed: a get_yt call leaves the records of the tracking file
\* as they were or appends exactly one; the records before the call are a
\* prefix of the records after it.
C3_AppendOnly ==
    \A p \in Procs :
        Returned(p) =>
            /\ IsPrefix(RecordsOf(loc[p].trackAtStart), RecordsOf(track))
            /\ Len(RecordsOf(track))
                  <= Len(RecordsOf(loc[p].trackAtStart)) + 1

\* C4, as claimed: when the last record's schedule_date parses, the
\* schedule date get_yt computes, and stores in the record it appends, is
\* the day after it.
C4_DayAfterLast ==
    \A p \in Procs :
        (Scheduled(p) /\ LastParses(p)) =>
            /\ loc[p].schedule_date
                  = NextCalendarDay(LastRecord(p).schedule_date)
            /\ Appended(p) =>
                  /\ track.recs[Len(track.recs) - 1] = LastRecord(p)
                  /\ track.recs[Len(track.recs)].schedule_date
                        = NextCalendarDay(LastRecord(p).schedule_date)

\* C4, amended: the same, for a last date before 31-12-9999, the last date
\* a datetime can hold.
C4_DayAfterLastBelowMax ==
    \A p \in Procs :
        (/\ Scheduled(p)
         /\ LastParses(p)
         /\ LastRecord(p).schedule_date # <<31, 12, 9999>>) =>
            /\ loc[p].schedule_date
                  = NextCalendarDay(LastRecord(p).schedule_date)
            /\ Appended(p) =>
                  /\ track.recs[Len(track.recs) - 1] = LastRecord(p)
                  /\ track.recs[Len(track.recs)].schedule_date
                        = NextCalendarDay(LastRecord(p).schedule_date)

\* a record dated 01-03-2024 has been appended after one dated 29-02-2024,
\* by a call made on 28-02-2024
C4_Witness ==
    /\ Appended(1)
    /\ LastParses(1)
    /\ LastRecord(1).schedule_date = <<29, 2, 2024>>
    /\ track.recs[Len(track.recs)].schedule_date = <<1, 3, 2024>>
    /\ loc[1].now.day = Day0

\* C5: with an empty tracking sequence, the schedule date get_yt computes
\* is today's date when the clock is before 06:30 and tomorrow's when it is
\* after 06:30.
C5_EmptySchedulesFromNow ==
    \A p \in Procs :
        (Scheduled(p) /\ loc[p].processed = File("list", <<>>)) =>
            /\ strptime_ok(loc[p].schedule_date)
            /\ loc[p].now.tod < SchedMinuteOfDay
                  => strptime(loc[p].schedule_date) = loc[p].now.day
            /\ loc[p].now.tod > SchedMinuteOfDay
                  => strptime(loc[p].schedule_date) = loc[p].now.day + 1

\* a call made on 28-02-2024 after 06:30 with no tracking file has
\* scheduled 29-02-2024
C5_Witness ==
    /\ Scheduled(1)
    /\ loc[1].processed = File("list", <<>>)
    /\ loc[1].trackAtStart.kind = "missing"
    /\ loc[1].now = [day |-> Day0, tod |-> SchedMinuteOfDay + 1]
    /\ loc[1].schedule_date = <<29, 2, 2024>>

\* the tracking file held something other than a list of record objects
InvalidContent(file) ==
    \/ file.kind \in {"unparseable", "truthy", "falsy", "emptyobj"}
    \/ file.kind = "list" /\ \E i \in 1..Len(file.recs) : ~file.recs[i].isrec

\* C6, as claimed: with invalid content in the tracking file no exception
\* propagates out of get_yt.
C6_InvalidContentNeverRaises ==
    \A p \in Procs : InvalidContent(loc[p].trackAtStart) => ~Raised(p)

\* C8: two invocations at once race on the tracking file: each rewrites it
\* from the sequence it loaded itself, so what the file holds is always one
\* invocation's own snapshot plus that invocation's record, whatever the
\* other has written in between.
C8_FileIsOneSnapshot ==
    (track.kind = "list" /\ track.recs # <<>>) =>
        \E p \in Procs :
            /\ Returned(p)
            /\ loc[p].tracked
            /\ track.recs = Append(loc[p].processed.recs, Metadata(p))

\* both invocations read the tracking file without error, fetched distinct
\* new urls and rewrote the tracking file, which holds one record only; the
\* video on disk is the other invocation's
C8_LostUpdate ==
    /\ Returned(1) /\ Returned(2)
    /\ loc[1].url # loc[2].url
    /\ loc[1].video_file /\ loc[2].video_file
    /\ loc[1].tracked /\ loc[2].tracked
    /\ ~loc[1].readFailed /\ ~loc[2].readFailed
    /\ track.kind = "list"
    /\ Len(track.recs) = 1
    /\ art.video # track.recs[1].url

\* an upload_video call has been made
Called == pub.result # "none"

\* C7: upload_video called with a media path that does not exist returns an
\* error result and does nothing else: authenticate_youtube is not called,
\* token.pickle is neither read nor written, no upload request is made.
C7_MissingMediaNoAuth ==
    (Called /\ pub.video_file \notin mediaFiles) =>
        /\ pub.result = "error"
        /\ ~pub.auth.called
        /\ ~pub.auth.read
        /\ ~pub.auth.written
        /\ ~pub.auth.refreshed
        /\ ~pub.auth.interactive
        /\ ~pub.requested
        /\ pub.auth.token = pub.tokenBefore

\* a second call, for a missing media file, with a token cached by the first
C7_Witness ==
    /\ Called
    /\ pub.video_file \notin mediaFiles
    /\ pub.tokenBefore.present
    /\ tokenFile = pub.tokenBefore
    /\ pub.result = "error"

\* a persisted token that is expired and has a refresh token
Refreshable(tf) ==
    tf.present /\ ~Valid(tf.creds) /\ tf.creds.expired
               /\ tf.creds.refresh_token

\* C9: authenticate_youtube reuses a persisted valid token as it is (no
\* refresh, no interactive authorization, no write of token.pickle),
\* refreshes a persisted token that is expired and has a refresh token,
\* runs the interactive authorization in every other case, and persists
\* the token a refresh or an interactive authorization returned; so with a
\* valid or refreshable token persisted no interactive authorization runs.
C9_CachedTokenFlow ==
    pub.auth.called =>
        LET before == pub.tokenBefore
            a      == pub.auth
        IN  /\ (before.present /\ Valid(before.creds)) =>
                  /\ ~a.refreshed /\ ~a.interactive /\ ~a.written
                  /\ ~a.raised
                  /\ a.token = before
            /\ Refreshable(before) => (a.refreshed /\ ~a.interactive)
            /\ (~(before.present /\ Valid(before.creds))
                  /\ ~Refreshable(before)) => (a.interactive /\ ~a.refreshed)
            /\ ((a.refreshed \/ a.interactive) /\ ~a.raised) =>
                  /\ a.written
                  /\ a.token.present
                  /\ Valid(a.token.creds)
                  /\ tokenFile.present
            /\ a.raised => (~a.written /\ a.token = before)
            /\ ((before.present /\ Valid(before.creds))
                  \/ Refreshable(before)) => ~a.interactive

\* the token persisted by the first call has expired and the second call
\* has refreshed and persisted it
C9_Witness ==
    /\ pub.auth.called
    /\ Refreshable(pub.tokenBefore)
    /\ pub.auth.refreshed
    /\ pub.auth.written
    /\ tokenFile.present /\ Valid(tokenFile.creds)
    /\ pub.result = "success"

Count(seq, x) == Cardinality({i \in 1..Len(seq) : seq[i] = x})

InputTitle == IF metadata.hasTitle THEN metadata.title ELSE UNTITLED

\* the title and the no-metadata case, as claimed and as amended
C10_TitleAndDefaults ==
    /\ metadata.none =>
          details = Details(DEFAULT_TITLE, DEFAULT_DESCRIPTION,
                            DEFAULT_ALL_TAGS)
    /\ ~metadata.none =>
          /\ Len(details.title) <= MAX_TITLE
          /\ IsPrefix(details.title, InputTitle)
          /\ Len(InputTitle) <= MAX_TITLE => details.title = InputTitle

\* C10, as claimed: the title is a prefix of at most 90 characters of the
\* metadata's, each default tag and each default hashtag occurs exactly
\* once in the result, and applying prepare_video_details to its own output
\* adds nothing; without metadata the result is the fixed default.
C10_DefaultsExactlyOnce ==
    applied >= 1 =>
        /\ C10_TitleAndDefaults
        /\ ~metadata.none =>
              /\ \A i \in 1..Len(default_tags) :
                    Count(details.tags, default_tags[i]) = 1
              /\ \A i \in 1..Len(default_hashtags) :
                    Count(details.description, default_hashtags[i]) = 1
              /\ applied >= 2 => details = Details(metadata.title,
                                                   metadata.description,
                                                   metadata.tags)

\* C10, amended: the title is a prefix of at most 90 characters of the
\* metadata's; the tags are the metadata's (no tag named twice) followed
\* by the default tags they lack, so each default tag occurs exactly once
\* and a second application adds no tag; the description is the
\* metadata's followed by the default hashtags, whether it contains them
\* or not, so each occurs once more than in the metadata and a second
\* application appends them again; without metadata the result is the
\* fixed default.
C10_TagsOnceHashtagsAlways ==
    applied >= 1 =>
        /\ C10_TitleAndDefaults
        /\ ~metadata.none =>
              /\ IsPrefix(metadata.tags, details.tags)
              /\ \A i \in 1..Len(default_tags) :
                    Count(details.tags, default_tags[i]) = 1
              /\ Len(details.tags) = Len(metadata.tags) +
                    Cardinality({i \in 1..Len(default_tags) :
                                   ~Contains(metadata.tags, default_tags[i])})
              /\ applied >= 2 => details.tags = metadata.tags
              /\ IsPrefix(metadata.description, details.description)
              /\ \A i \in 1..Len(default_hashtags) :
                    Count(details.description, default_hashtags[i])
                       = Count(metadata.description, default_hashtags[i]) + 1
              /\ Len(details.description) = Len(metadata.description)
                    + Len(default_hashtags)
                    + (IF metadata.description = <<>> THEN 0 ELSE 1)

\* a title of 91 characters was cut to 90, the tag 'shorts' the metadata
\* held was not added again, and '#shorts', which the description held, was
\* appended again
C10_Witness ==
    /\ applied = 1
    /\ ~metadata.none
    /\ Len(metadata.title) = MAX_TITLE + 1
    /\ Len(details.title) = MAX_TITLE
    /\ Count(metadata.tags, "shorts") = 1
    /\ Count(details.tags, "shorts") = 1
    /\ Count(metadata.description, "#shorts") = 1
    /\ Count(details.description, "#shorts") = 2

====
